---- MODULE Spec2Model ----
(***************************************************************************)
(* Model of the pod-metrics dataset generator.  Two scripts share the      *)
(* design: src/dataset-generator.py (variant "local": static config,       *)
(* unauthenticated Prometheus) and src/azure/datasetgen.py (variant        *)
(* "azure": bearer token fetched before every query).  The model covers    *)
(* the scheduler loop, one collection cycle (metric queries, per-pod       *)
(* lookups, row assembly), the CSV append and the pure readers             *)
(* (get_pod_status, the event correlators).                                *)
(***************************************************************************)
EXTENDS Integers, Sequences, FiniteSets, TLC

(***************************************************************************)
(* Bounds of the model.                                                    *)
(***************************************************************************)
\* number of loop iterations explored
MaxCycles == 2
\* number of failures the environment injects in a run (API, backend, I/O errors)
MaxFaults == 1

Variants == {"local", "azure"}

(***************************************************************************)
(* Values.  Python values of different types share dict fields and CSV     *)
(* cells, so every value carries a tag: <<"str", s>> a string,             *)
(* <<"num", n>> a number, <<"None">> Python's None.  Pod names are         *)
(* sequences of one-character strings, so that `in` (substring) is         *)
(* computed, not assumed.                                                  *)
(***************************************************************************)
None == <<"None">>
Str(s) == <<"str", s>>
Num(n) == <<"num", n>>
Name(n) == <<"name", n>>

NA == Str("N/A")
UNKNOWN == Str("Unknown")

\* Python's `sub in s` on strings
Contains(sub, s) ==
  \E i \in 0..(Len(s) - Len(sub)) : SubSeq(s, i + 1, i + Len(sub)) = sub

EXCLUDE_POD_NAMES ==
  << <<"o","p","e","n","s","e","a","r","c","h">>,
     <<"p","r","o","m","e","t","h","e","u","s">>,
     <<"o","t","e","l","c","o","l">>,
     <<"l","o","a","d","g","e","n","e","r","a","t","o","r">>,
     <<"j","a","e","g","e","r">>,
     <<"g","r","a","f","a","n","a">>,
     <<"f","e","a","t","u","r","e","f","l","a","g","s","e","r","v","i","c","e">> >>

\* a bug that matches the exclusion entries as name prefixes only
should_exclude_pod_prefix(pod_name) ==
  \E k \in 1..Len(EXCLUDE_POD_NAMES) :
    /\ Len(EXCLUDE_POD_NAMES[k]) <= Len(pod_name)
    /\ SubSeq(pod_name, 1, Len(EXCLUDE_POD_NAMES[k])) = EXCLUDE_POD_NAMES[k]

should_exclude_pod(pod_name) ==
  \E k \in 1..Len(EXCLUDE_POD_NAMES) : Contains(EXCLUDE_POD_NAMES[k], pod_name)

(***************************************************************************)
(* The environment: pod names, the cluster's pods and events, and the      *)
(* samples the metrics backend holds.                                      *)
(***************************************************************************)
Cart == <<"c","a","r","t">>
Checkout == <<"c","h","e","c","k","o","u","t","-","7","f">>
MyGrafana == <<"m","y","-","g","r","a","f","a","n","a","-","1">>

EmptyMap == [x \in {} |-> 0]
Get(m, k, default) == IF k \in DOMAIN m THEN m[k] ELSE default

\* container states: exactly one of running / waiting / terminated is set
Running == [kind |-> "running", reason |-> "", exit_code |-> 0]
Waiting(r) == [kind |-> "waiting", reason |-> r, exit_code |-> 0]
Terminated(r, code) == [kind |-> "terminated", reason |-> r, exit_code |-> code]
ContainerStatus(st, rc, rdy) == [state |-> st, restart_count |-> rc, ready |-> rdy]

(***************************************************************************)
(* Cluster API responses.  A call either returns a value or raises:        *)
(* "notfound" an ApiException with status 404, "apierror" an ApiException  *)
(* with another status, "error" any other exception.                       *)
(***************************************************************************)
Ok(val) == [outcome |-> "ok", value |-> val]
Raised(kind) == [outcome |-> kind, value |-> None]
ApiFailures == {"notfound", "apierror", "error"}

RECURSIVE SumRestarts(_, _)
\* sum(c.restart_count for c in statuses[1..n])
SumRestarts(statuses, n) ==
  IF n = 0 THEN 0 ELSE SumRestarts(statuses, n - 1) + statuses[n].restart_count

RECURSIVE CountReady(_, _)
\* sum(1 for c in statuses[1..n] if c.ready)
CountReady(statuses, n) ==
  IF n = 0 THEN 0
  ELSE CountReady(statuses, n - 1) + (IF statuses[n].ready THEN 1 ELSE 0)

\* `terminated.reason or terminated.exit_code`
ReasonOrExitCode(st) == IF st.reason # "" THEN Str(st.reason) ELSE Num(st.exit_code)

\* f"Init: {...}"
InitReason(x) == <<"Init: ", x>>

FailedInit(c) == c.state.kind = "terminated" /\ c.state.exit_code # 0
InitFine(c) == c.state.kind = "terminated" /\ c.state.exit_code = 0

\* index of the init container at which the first loop breaks, 0 if it runs through
InitBreakIndex(inits) ==
  IF \E i \in 1..Len(inits) : FailedInit(inits[i])
  THEN CHOOSE i \in 1..Len(inits) :
         FailedInit(inits[i]) /\ \A j \in 1..(i - 1) : ~FailedInit(inits[j])
  ELSE 0

RECURSIVE RegularReason(_, _, _)
\* the reason after the loop over container_statuses[1..n], starting from r0
RegularReason(statuses, n, r0) ==
  IF n = 0 THEN r0
  ELSE LET prev == RegularReason(statuses, n - 1, r0)
           st == statuses[n].state
       IN  IF st.kind = "waiting"
           THEN (IF st.reason # "" THEN Str(st.reason) ELSE None)
           ELSE IF st.kind = "terminated" THEN ReasonOrExitCode(st)
           ELSE prev

WorkloadState(status, reason, restarts, ready, total, err) ==
  [status |-> status, reason |-> reason, restarts |-> restarts,
   ready_containers |-> ready, total_containers |-> total, error_message |-> err]

\* src/dataset-generator.py get_pod_status, the body of the try
pod_status_local(pod) ==
  LET status == pod.phase
      reason0 == IF pod.reason = "" THEN Str(status) ELSE Str(pod.reason)
      inits == pod.init_container_statuses
      cs == pod.container_statuses
      b == InitBreakIndex(inits)
      initRestarts == SumRestarts(inits, IF b = 0 THEN Len(inits) ELSE b)
      reason1 == IF b = 0 THEN reason0
                 ELSE InitReason(ReasonOrExitCode(inits[b].state))
      regular == \A i \in 1..Len(inits) : InitFine(inits[i])
  IN  WorkloadState(Str(status),
        IF regular THEN RegularReason(cs, Len(cs), reason1) ELSE reason1,
        initRestarts + (IF regular THEN SumRestarts(cs, Len(cs)) ELSE 0),
        CountReady(cs, Len(cs)), pod.containers, None)

\* src/azure/datasetgen.py get_pod_status, the body of the try
pod_status_azure(pod) ==
  LET cs == pod.container_statuses
  IN  WorkloadState(Str(pod.phase),
        IF pod.reason = "" THEN Str(pod.phase) ELSE Str(pod.reason),
        SumRestarts(cs, Len(cs)), CountReady(cs, Len(cs)), pod.containers, None)

\* get_pod_status of variant v on the response of read_namespaced_pod
get_pod_status(v, pod_name, resp) ==
  IF resp.outcome = "ok"
  THEN (IF v = "local" THEN pod_status_local(resp.value)
        ELSE pod_status_azure(resp.value))
  ELSE IF resp.outcome = "notfound"
  THEN WorkloadState(Str("NotFound"), None, 0, 0, 0,
         IF v = "local" THEN <<"Pod not found: ", pod_name>> ELSE Str("ApiException(404)"))
  ELSE IF resp.outcome = "apierror"
  THEN WorkloadState(Str("Error"), None, 0, 0, 0, Str("ApiException(500)"))
  ELSE WorkloadState(Str("Unknown"), None, 0, 0, 0, Str("Exception"))

\* a bug: the except clause returns an empty name
get_pod_node_name_blank(resp) ==
  IF resp.outcome = "ok" THEN Str(resp.value.node_name) ELSE Str("")

\* get_pod_node_name on the response of read_namespaced_pod
get_pod_node_name(resp) ==
  IF resp.outcome = "ok" THEN Str(resp.value.node_name) ELSE UNKNOWN

(***************************************************************************)
(* Events.  A timestamp is a positive integer (seconds), 0 when the field  *)
(* is None.  source is the component name, or None when the event has no   *)
(* source object (reading source.component then raises).                   *)
(***************************************************************************)
Event(last, etime, first, type, reason, source, message) ==
  [last_timestamp |-> last, event_time |-> etime, first_timestamp |-> first,
   type |-> type, reason |-> reason, source |-> source, message |-> message]

get_event_timestamp(event) ==
  IF event.last_timestamp # 0 THEN event.last_timestamp
  ELSE IF event.event_time # 0 THEN event.event_time
  ELSE event.first_timestamp

\* [event for event in items[1..n] if its index is in kept], in list order
RECURSIVE Filter(_, _, _)
Filter(items, n, kept) ==
  IF n = 0 THEN <<>>
  ELSE IF n \in kept THEN Append(Filter(items, n - 1, kept), items[n])
  ELSE Filter(items, n - 1, kept)

\* sorted(valid, key=..., reverse=True)[0], keys[i] being the key of valid[i]: the
\* sort is stable, so among the events with the greatest key the first in list
\* order comes out first
Latest(valid, keys) ==
  valid[CHOOSE i \in 1..Len(valid) :
          /\ \A j \in 1..Len(valid) : keys[j] <= keys[i]
          /\ \A j \in 1..(i - 1) : keys[j] < keys[i]]

\* str(now - ts).split('.')[0]: the age in whole seconds; the clock counts half seconds
EventAge(now, ts) == <<"age", (now - 2 * ts) \div 2>>

\* key=lambda x: x.last_timestamp
LastTimestamps(valid) == [i \in 1..Len(valid) |-> valid[i].last_timestamp]
\* key=lambda x: get_event_timestamp(x)
EventTimestamps(valid) == [i \in 1..Len(valid) |-> get_event_timestamp(valid[i])]

PodEventSummary(type, reason, age, source, message) ==
  ("Pod Event Type" :> type) @@ ("Pod Event Reason" :> reason) @@
  ("Pod Event Age" :> age) @@ ("Pod Event Source" :> source) @@
  ("Pod Event Message" :> message)

NodeEventSummary(node, reason, age, source, message) ==
  ("Node Name" :> node) @@ ("Event Reason" :> reason) @@
  ("Event Age" :> age) @@ ("Event Source" :> source) @@
  ("Event Message" :> message)

\* get_latest_pod_event of variant v on the response of list_namespaced_event
get_latest_pod_event(v, resp, now) ==
  LET failed == IF v = "local"
                THEN PodEventSummary(Str("Error"), UNKNOWN, UNKNOWN, UNKNOWN, UNKNOWN)
                ELSE PodEventSummary(UNKNOWN, UNKNOWN, UNKNOWN, UNKNOWN, UNKNOWN)
      nothing == IF v = "local"
                 THEN PodEventSummary(Str("No recent events"), NA, NA, NA, NA)
                 ELSE PodEventSummary(NA, NA, NA, NA, NA)
  IN  IF resp.outcome # "ok" THEN failed
      ELSE LET kept == {i \in 1..Len(resp.value) : resp.value[i].last_timestamp # 0}
               valid == Filter(resp.value, Len(resp.value), kept)
           IN  IF valid = <<>> THEN nothing
               ELSE LET latest == Latest(valid, LastTimestamps(valid))
                    IN  IF latest.source = None THEN failed
                        ELSE PodEventSummary(latest.type, latest.reason,
                               EventAge(now, latest.last_timestamp),
                               latest.source, latest.message)

\* get_latest_event_details_node of variant v on the response of
\* list_event_for_all_namespaces
get_latest_event_details_node(v, node_name, resp, now) ==
  LET failed == IF v = "local"
                THEN NodeEventSummary(node_name, UNKNOWN, UNKNOWN, UNKNOWN, UNKNOWN)
                ELSE NodeEventSummary(UNKNOWN, UNKNOWN, UNKNOWN, UNKNOWN, UNKNOWN)
      nothing == IF v = "local"
                 THEN NodeEventSummary(node_name, Str("No recent events"), NA, NA, NA)
                 ELSE NodeEventSummary(NA, NA, NA, NA, NA)
  IN  IF resp.outcome # "ok" THEN failed
      ELSE LET kept == {i \in 1..Len(resp.value) : get_event_timestamp(resp.value[i]) # 0}
               valid == Filter(resp.value, Len(resp.value), kept)
           IN  IF valid = <<>> THEN nothing
               ELSE LET latest == Latest(valid, EventTimestamps(valid))
                    IN  IF latest.source = None THEN failed
                        ELSE NodeEventSummary(node_name, latest.reason,
                               EventAge(now, get_event_timestamp(latest)),
                               latest.source, latest.message)

\* get_latest_event_reason (local only) on the response of list_namespaced_event
get_latest_event_reason(resp) ==
  IF resp.outcome # "ok" THEN UNKNOWN
  ELSE LET kept == {i \in 1..Len(resp.value) : resp.value[i].last_timestamp # 0}
           valid == Filter(resp.value, Len(resp.value), kept)
       IN  IF valid = <<>> THEN Str("No recent events")
           ELSE Latest(valid, LastTimestamps(valid)).reason

\* get_last_log_entry (local only) on the response of read_namespaced_pod_log
get_last_log_entry(resp) ==
  IF resp.outcome # "ok" THEN Str("Log retrieval error")
  ELSE IF resp.value = "" THEN Str("No logs") ELSE Str(resp.value)

(***************************************************************************)
(* The cluster the scripts observe: its pods, their events and logs.       *)
(***************************************************************************)
Pod(phase, reason, node, inits, statuses, n) ==
  [phase |-> phase, reason |-> reason, node_name |-> node,
   init_container_statuses |-> inits, container_statuses |-> statuses,
   containers |-> n]

ClusterPods ==
  (Cart :> Pod("Running", "", "node-1", <<>>,
               <<ContainerStatus(Running, 1, TRUE)>>, 1)) @@
  (Checkout :> Pod("Pending", "", "node-2",
               <<ContainerStatus(Terminated("Error", 1), 2, FALSE)>>,
               <<ContainerStatus(Waiting("PodInitializing"), 1, FALSE)>>, 1)) @@
  (MyGrafana :> Pod("Running", "", "node-1", <<>>,
               <<ContainerStatus(Running, 0, TRUE)>>, 1))

PodEvents ==
  (Cart :> << Event(10, 0, 0, Str("Normal"), Str("Started"), Str("kubelet"),
                    Str("Started container")),
              Event(12, 0, 0, Str("Warning"), Str("BackOff"), Str("kubelet"),
                    Str("Back-off restarting")) >>) @@
  (Checkout :> << Event(0, 9, 0, Str("Normal"), Str("Scheduled"), Str("scheduler"),
                    Str("Assigned")) >>)

NodeEvents ==
  ("node-1" :> << Event(0, 8, 0, Str("Normal"), Str("NodeReady"), Str("kubelet"),
                        Str("Node ready")) >>)

PodLogs == (Cart :> "GET /cart 200") @@ (Checkout :> "")

\* the response of a cluster API call: what the cluster holds, or the failure injected
ReadPod(o, pod) ==
  IF o # "ok" THEN Raised(o)
  ELSE IF pod \in DOMAIN ClusterPods THEN Ok(ClusterPods[pod]) ELSE Raised("notfound")
ListPodEvents(o, pod) == IF o # "ok" THEN Raised(o) ELSE Ok(Get(PodEvents, pod, <<>>))
ListNodeEvents(o, node) ==
  IF o # "ok" THEN Raised(o) ELSE Ok(Get(NodeEvents, node[2], <<>>))
ReadPodLog(o, pod) ==
  IF o # "ok" THEN Raised(o)
  ELSE IF pod \in DOMAIN PodLogs THEN Ok(PodLogs[pod]) ELSE Raised("notfound")

(***************************************************************************)
(* The metrics backend.  QueryNames lists a variant's queries in the order *)
(* the cycle issues them; a backend maps each query to its samples.        *)
(***************************************************************************)
QueryNames(v) ==
  IF v = "local"
  THEN <<"cpu_usage", "memory_usage", "memory_limit", "network_traffic",
         "network_receive", "network_transmit", "network_receive_errors",
         "network_transmit_errors">>
  ELSE <<"cpu_usage", "memory_usage", "memory_limit">>

AllQueries == {QueryNames("local")[i] : i \in 1..Len(QueryNames("local"))}

Populated ==
  [q \in AllQueries |->
     CASE q = "cpu_usage" -> (Cart :> 5) @@ (MyGrafana :> 9)
       [] q = "memory_usage" -> (Cart :> 50) @@ (Checkout :> 30) @@ (MyGrafana :> 80)
       [] q = "memory_limit" -> (Cart :> 100) @@ (Checkout :> 0) @@ (MyGrafana :> 200)
       [] q = "network_traffic" -> (Cart :> 7) @@ (MyGrafana :> 3)
       [] q = "network_receive" -> (Cart :> 4) @@ (MyGrafana :> 2)
       [] q = "network_transmit" -> (Cart :> 3) @@ (MyGrafana :> 1)
       [] OTHER -> (Cart :> 0)]

Idle == [q \in AllQueries |-> EmptyMap]

Backends == {Populated, Idle}

\* outcomes of the HTTP calls of a query
TokenOutcomes(v) == IF v = "azure" THEN {"ok", "denied"} ELSE {"ok"}
BackendOutcomes == {"ok", "transport", "malformed"}

QueryResult(raised, value) == [raised |-> raised, value |-> value]

\* a bug: no except clause around the backend request
query_prometheus_unguarded(v, token, http, samples) ==
  IF token = "ok" /\ http = "ok" THEN QueryResult(FALSE, samples)
  ELSE QueryResult(TRUE, EmptyMap)

\* query_prometheus of variant v: token is the outcome of get_access_token (azure),
\* http the outcome of the request to the backend, samples what the backend holds
query_prometheus(v, token, http, samples) ==
  IF v = "azure" /\ token # "ok" THEN QueryResult(TRUE, EmptyMap)
  ELSE IF http = "ok" THEN QueryResult(FALSE, samples)
  ELSE IF http = "transport" THEN QueryResult(FALSE, EmptyMap)
  ELSE QueryResult(TRUE, EmptyMap)

\* a bug: a limit of 0 yields the number 0 instead of the marker
calculate_percentage_zero(usage, limit) ==
  IF limit > 0 THEN Num((usage * 100) \div limit) ELSE Num(0)

\* (usage / limit) * 100 if limit > 0 else 'N/A'
calculate_percentage(usage, limit) ==
  IF limit > 0 THEN Num((usage * 100) \div limit) ELSE NA

(***************************************************************************)
(* Row assembly.  The cluster calls made for one pod, in the order the     *)
(* variant makes them, and the outcome of each.                            *)
(***************************************************************************)
LookupCalls(v) ==
  IF v = "local"
  THEN {"event_reason", "node_name", "log", "status", "pod_event", "node_event"}
  ELSE {"status", "pod_event", "node_name", "node_event"}

\* the outcome assignments with at most `budget` failing calls
LookupOutcomes(v, budget) ==
  {o \in [LookupCalls(v) -> {"ok"} \cup ApiFailures] :
     /\ \A c \in LookupCalls(v) \ {"status"} : o[c] \in {"ok", "error"}
     /\ Cardinality({c \in LookupCalls(v) : o[c] # "ok"}) <= budget}

Failures(o) == Cardinality({c \in DOMAIN o : o[c] # "ok"})

StatusColumns(st) ==
  ("Pod Status" :> st.status) @@ ("Pod Reason" :> st.reason) @@
  ("Pod Restarts" :> Num(st.restarts)) @@
  ("Ready Containers" :> Num(st.ready_containers)) @@
  ("Total Containers" :> Num(st.total_containers)) @@
  ("Error Message" :> st.error_message)

MetricCell(m, pod) == IF pod \in DOMAIN m THEN Num(m[pod]) ELSE NA

\* the dict appended to data for one pod
BuildRow(v, timestamp, pod, m, o, now) ==
  LET pct == calculate_percentage(Get(m["memory_usage"], pod, 0),
                                  Get(m["memory_limit"], pod, 0))
      node_name == get_pod_node_name(ReadPod(o["node_name"], pod))
      st == get_pod_status(v, pod, ReadPod(o["status"], pod))
      pod_event == get_latest_pod_event(v, ListPodEvents(o["pod_event"], pod), now)
      node_event == get_latest_event_details_node(v, node_name,
                      ListNodeEvents(o["node_event"], node_name), now)
      common == ("Timestamp" :> Num(timestamp)) @@ ("Pod Name" :> Name(pod)) @@
                ("CPU Usage (%)" :> MetricCell(m["cpu_usage"], pod)) @@
                ("Memory Usage (%)" :> pct) @@
                StatusColumns(st) @@ pod_event @@ node_event
  IN  IF v = "local"
      THEN common @@
           ("Network Traffic (B/s)" :> MetricCell(m["network_traffic"], pod)) @@
           ("Network Receive (B/s)" :> MetricCell(m["network_receive"], pod)) @@
           ("Network Transmit (B/s)" :> MetricCell(m["network_transmit"], pod)) @@
           ("Network Receive Errors" :> MetricCell(m["network_receive_errors"], pod)) @@
           ("Network Transmit Errors" :> MetricCell(m["network_transmit_errors"], pod)) @@
           ("Last Log Entry" :> get_last_log_entry(ReadPodLog(o["log"], pod))) @@
           ("Latest Event Reason" :>
              get_latest_event_reason(ListPodEvents(o["event_reason"], pod)))
      ELSE common

\* the candidate pods of a cycle: set(usage.keys()).union(limit.keys())
Candidates(m) == DOMAIN m["memory_usage"] \cup DOMAIN m["memory_limit"]

(***************************************************************************)
(* The CSV file.  A line is the tuple of its cells; the header line holds  *)
(* the column names of the DataFrame, which has no columns when data is    *)
(* empty.                                                                  *)
(***************************************************************************)
RowColumns(v) ==
  IF v = "local"
  THEN <<"Timestamp", "Pod Name", "CPU Usage (%)", "Memory Usage (%)",
         "Network Traffic (B/s)", "Network Receive (B/s)", "Network Transmit (B/s)",
         "Network Receive Errors", "Network Transmit Errors", "Last Log Entry",
         "Pod Status", "Pod Reason", "Pod Restarts", "Ready Containers",
         "Total Containers", "Error Message", "Latest Event Reason",
         "Pod Event Type", "Pod Event Reason", "Pod Event Age", "Pod Event Source",
         "Pod Event Message", "Node Name", "Event Reason", "Event Age",
         "Event Source", "Event Message">>
  ELSE <<"Timestamp", "Pod Name", "CPU Usage (%)", "Memory Usage (%)",
         "Pod Status", "Pod Reason", "Pod Restarts", "Ready Containers",
         "Total Containers", "Error Message",
         "Pod Event Type", "Pod Event Reason", "Pod Event Age", "Pod Event Source",
         "Pod Event Message", "Node Name", "Event Reason", "Event Age",
         "Event Source", "Event Message">>

\* pd.DataFrame(data).columns
DataFrameColumns(v, rows) == IF rows = <<>> THEN <<>> ELSE RowColumns(v)

\* to_csv writes None as an empty cell
CsvCell(x) == IF x = None THEN Str("") ELSE x

HeaderLine(cols) == <<"header", [i \in 1..Len(cols) |-> cols[i]]>>
RowLine(cols, row) == <<"row", [i \in 1..Len(cols) |-> CsvCell(row[cols[i]])]>>

NoFile == [exists |-> FALSE, lines |-> <<>>]

\* df.to_csv(OUTPUT_FILE, index=False, mode=mode, header=header)
to_csv(f, v, rows, mode, header) ==
  LET cols == DataFrameColumns(v, rows)
      kept == IF mode = "w" THEN <<>> ELSE f.lines
  IN  [exists |-> TRUE,
       lines |-> kept \o (IF header THEN <<HeaderLine(cols)>> ELSE <<>>)
                      \o [i \in 1..Len(rows) |-> RowLine(cols, rows[i])]]

\* a bug: the file is opened for writing on every call
write_to_csv_truncating(v, f, rows) == to_csv(f, v, rows, "w", ~f.exists)

\* the CSV write at the end of a cycle (local: lines 289-296; azure: write_to_csv)
write_to_csv(v, f, rows) ==
  IF v = "local"
  THEN (IF ~f.exists THEN to_csv(f, v, rows, "w", TRUE)
        ELSE to_csv(f, v, rows, "a", FALSE))
  ELSE to_csv(f, v, rows, "a", ~f.exists)

(***************************************************************************)
(* The scheduler loop.  pc is the position in the loop body:               *)
(*   "list"    top of the loop, before list_namespaced_pod                 *)
(*   "query"   before the qi-th metric query                               *)
(*   "prepare" after the queries, before the loop over the candidate pods  *)
(*   "rows"    inside the loop over the candidate pods                     *)
(*   "write"   before the CSV write                                        *)
(*   "sleep"   in time.sleep                                               *)
(*   "exited"  after the break of the KeyboardInterrupt handler            *)
(* History only: event is the kind of the last step ("exception" when the  *)
(* loop's handler caught one, "interrupt"), cause what the last caught      *)
(* exception came from, qlog the outcome of each query of this cycle and   *)
(* lookups the outcomes of the cluster calls made for each pod.            *)
(***************************************************************************)
VARIABLES variant, order, pc, qi, cycle, faults, backend, current, md, todo,
          data, file, last_known_pod_states, event, cause, qlog, lookups

vars == <<variant, order, pc, qi, cycle, faults, backend, current, md, todo,
          data, file, last_known_pod_states, event, cause, qlog, lookups>>

\* Python iterates a set of strings in an order fixed by the process's hash seed:
\* order lists the pod names in that order.  Two opposite orders are explored.
HashOrders == {<<Cart, MyGrafana, Checkout>>, <<Checkout, MyGrafana, Cart>>}

\* the first element of the set s in iteration order
First(s) == order[CHOOSE i \in 1..Len(order) :
                    order[i] \in s /\ \A j \in 1..(i - 1) : order[j] \notin s]

NoMetrics == [q \in AllQueries |-> EmptyMap]

\* where `except Exception` leaves the loop: at its top, for the next iteration
OnExceptionExit == "exited"

OnException == "list"

Init ==
  /\ variant \in Variants
  /\ order \in HashOrders
  /\ pc = "list"
  /\ qi = 1
  /\ cycle = 0
  /\ faults = 0
  /\ backend = Idle
  /\ current = EmptyMap
  /\ md = NoMetrics
  /\ todo = {}
  /\ data = <<>>
  /\ file = NoFile
  /\ last_known_pod_states = EmptyMap
  /\ event = "none"
  /\ cause = <<"none">>
  /\ qlog = EmptyMap
  /\ lookups = EmptyMap

\* The locals of the loop body are dead once an iteration ends: each is assigned
\* again before it is read.  The model drops them there.
DropLocals ==
  /\ qi' = 1
  /\ backend' = Idle
  /\ current' = EmptyMap
  /\ md' = NoMetrics
  /\ todo' = {}
  /\ data' = <<>>
  /\ qlog' = EmptyMap
  /\ lookups' = EmptyMap

\* an exception propagates to the handler of the loop, which ends the iteration
Raise(c) ==
  /\ faults < MaxFaults
  /\ faults' = faults + 1
  /\ pc' = OnException
  /\ event' = "exception"
  /\ cause' = c
  /\ DropLocals

\* top of the loop body: list the namespace's pods
ListPods ==
  /\ pc = "list"
  /\ cycle < MaxCycles
  /\ cycle' = cycle + 1
  /\ \/ /\ current' = [p \in {n \in DOMAIN ClusterPods : ~should_exclude_pod(n)}
                         |-> ClusterPods[p].phase]
        /\ \E b \in Backends : backend' = b
        /\ pc' = "query"
        /\ event' = "none"
        /\ UNCHANGED <<faults, qi, md, todo, data, cause, qlog, lookups>>
     \/ Raise(<<"list">>)
  /\ UNCHANGED <<variant, order, file, last_known_pod_states>>

\* the qi-th call of query_prometheus
Query ==
  /\ pc = "query"
  /\ LET q == QueryNames(variant)[qi]
     IN  \E t \in TokenOutcomes(variant), h \in BackendOutcomes :
           LET r == query_prometheus(variant, t, h, backend[q])
               outcome == IF t # "ok" THEN t ELSE h
           IN  /\ t # "ok" => h = "ok"
               /\ IF r.raised
                  THEN Raise(<<"query", q, outcome>>)
                  ELSE /\ outcome # "ok" => faults < MaxFaults
                       /\ faults' = faults + (IF outcome # "ok" THEN 1 ELSE 0)
                       /\ md' = [md EXCEPT ![q] = r.value]
                       /\ qlog' = (q :> outcome) @@ qlog
                       /\ event' = "none"
                       /\ IF qi < Len(QueryNames(variant))
                          THEN qi' = qi + 1 /\ pc' = "query"
                          ELSE qi' = qi /\ pc' = "prepare"
                       /\ UNCHANGED <<backend, current, todo, data, cause, lookups>>
  /\ UNCHANGED <<variant, order, cycle, file, last_known_pod_states>>

\* the state bookkeeping (local) and the start of the loop over the candidates
Prepare ==
  /\ pc = "prepare"
  /\ last_known_pod_states' =
       IF variant = "local" THEN current ELSE last_known_pod_states
  /\ data' = <<>>
  /\ todo' = Candidates(md)
  /\ pc' = IF Candidates(md) = {} THEN "write" ELSE "rows"
  /\ event' = "none"
  /\ UNCHANGED <<variant, order, qi, cycle, faults, backend, current, md, file, cause,
                 qlog, lookups>>

\* an iteration of the loop over the candidates that hits `continue`
SkipExcluded ==
  /\ pc = "rows"
  /\ LET pod == First(todo)
     IN  /\ should_exclude_pod(pod)
         /\ todo' = todo \ {pod}
         /\ pc' = IF todo \ {pod} = {} THEN "write" ELSE "rows"
  /\ event' = "none"
  /\ UNCHANGED <<variant, order, qi, cycle, faults, backend, current, md, data, file,
                 last_known_pod_states, cause, qlog, lookups>>

\* an iteration of the loop over the candidates that appends a row
AppendRow ==
  /\ pc = "rows"
  /\ LET pod == First(todo)
     IN  /\ ~should_exclude_pod(pod)
         /\ \E o \in LookupOutcomes(variant, MaxFaults - faults) :
              /\ data' = Append(data, BuildRow(variant, cycle, pod, md, o, 40 + 2 * cycle))
              /\ faults' = faults + Failures(o)
              /\ lookups' = (pod :> o) @@ lookups
         /\ todo' = todo \ {pod}
         /\ pc' = IF todo \ {pod} = {} THEN "write" ELSE "rows"
  /\ event' = "none"
  /\ UNCHANGED <<variant, order, qi, cycle, backend, current, md, file,
                 last_known_pod_states, cause, qlog>>

\* the CSV write; an I/O error raises before anything is written
WriteCsv ==
  /\ pc = "write"
  /\ \/ /\ file' = write_to_csv(variant, file, data)
        /\ pc' = "sleep"
        /\ event' = "none"
        /\ UNCHANGED <<faults, cause, qi, backend, current, md, todo, data, qlog,
                       lookups>>
     \/ /\ file' = file
        /\ Raise(<<"write">>)
  /\ UNCHANGED <<variant, order, cycle, last_known_pod_states>>

\* time.sleep(SLEEP_INTERVAL) returns and the iteration ends
Sleep ==
  /\ pc = "sleep"
  /\ pc' = "list"
  /\ event' = "none"
  /\ DropLocals
  /\ UNCHANGED <<variant, order, cycle, faults, file, last_known_pod_states, cause>>

\* KeyboardInterrupt: the handler breaks out of the loop and the process ends
Interrupt ==
  /\ pc # "exited"
  /\ pc' = "exited"
  /\ event' = "interrupt"
  /\ DropLocals
  /\ last_known_pod_states' = EmptyMap
  /\ UNCHANGED <<variant, order, cycle, faults, file, cause>>

Next ==
  \/ ListPods
  \/ Query
  \/ Prepare
  \/ SkipExcluded
  \/ AppendRow
  \/ WriteCsv
  \/ Sleep
  \/ Interrupt

Spec == Init /\ [][Next]_vars

(***************************************************************************)
(* Properties.                                                             *)
(***************************************************************************)
\* a name holds an ExclusionSet entry as a substring (stated on substrings directly)
ExcludedName(n) ==
  \E k \in 1..Len(EXCLUDE_POD_NAMES) : \E i \in 1..Len(n) : \E j \in i..Len(n) :
    SubSeq(n, i, j) = EXCLUDE_POD_NAMES[k]

IsPrefix(a, b) == Len(a) <= Len(b) /\ SubSeq(b, 1, Len(a)) = a

RowLines == {i \in 1..Len(file.lines) : file.lines[i][1] = "row"}
\* the pod named by a row line: its second cell
LinePod(i) == file.lines[i][2][2][2]
\* the cycle that wrote a row line: its first cell, the timestamp
LineCycle(i) == file.lines[i][2][1][2]
RowPod(row) == row["Pod Name"][2]

\* C1: no row for an entity whose name holds an ExclusionSet substring is ever
\* assembled in a cycle or present in the output file, whatever metric mappings
\* (CPU, memory usage, memory limit, network) hold the name.
C1_NoExcludedRows ==
  /\ \A i \in 1..Len(data) : ~ExcludedName(RowPod(data[i]))
  /\ \A i \in RowLines : ~ExcludedName(LinePod(i))

\* an excluded name is in the CPU, usage, limit and network mappings of a cycle
\* that assembled rows and wrote them
C1_Witness ==
  /\ pc = "sleep"
  /\ Len(data) = 2
  /\ RowLines # {}
  /\ \E n \in Candidates(md) :
       /\ ExcludedName(n)
       /\ n \in DOMAIN md["cpu_usage"]
       /\ n \in DOMAIN md["memory_usage"]
       /\ n \in DOMAIN md["memory_limit"]
       /\ variant = "local" => n \in DOMAIN md["network_traffic"]

\* C2: every step (a write with any number of rows, a failed cycle, any other
\* step) leaves the lines the file held before as a prefix of the lines it holds
\* after, and an existing file stays in existence.
C2_AppendOnly ==
  [][IsPrefix(file.lines, file'.lines) /\ (file.exists => file'.exists)]_vars

\* the file holds rows written by two different cycles
C2_Witness ==
  \E i, j \in RowLines : i < j /\ LineCycle(i) = 1 /\ LineCycle(j) = 2

\* C3: once the file exists it starts with one header line holding the row
\* column names, and no other line of it is a header line (also when the first
\* write carried zero rows and later writes carried rows).
C3_HeaderWriteLaw ==
  file.exists =>
    /\ file.lines # <<>>
    /\ file.lines[1] = HeaderLine(RowColumns(variant))
    /\ \A i \in 2..Len(file.lines) : file.lines[i][1] = "row"

\* C4: a write of zero rows leaves the destination as it was, existing or not.
C4_ZeroRowsNoChange ==
  [][(pc = "write" /\ data = <<>> /\ pc' = "sleep") => file' = file]_vars

\* C5: the loop is left only by an interrupt, and an exception caught by the
\* loop's handler leaves it at the top of the loop, where the next cycle starts.
C5_OnlyInterruptExits ==
  /\ pc = "exited" => event = "interrupt"
  /\ event = "exception" => pc = "list" /\ (cycle < MaxCycles => ENABLED ListPods)

\* a cycle failed with an exception and a later cycle ran to its end
C5_Witness == cause # <<"none">> /\ pc = "sleep" /\ event = "none"

\* the names of the rows assembled by a cycle that reached the write
RowsMatchCandidates ==
  pc \in {"write", "sleep"} =>
    /\ {RowPod(data[i]) : i \in 1..Len(data)} =
         {n \in Candidates(md) : ~ExcludedName(n)}
    /\ \A i, j \in 1..Len(data) : RowPod(data[i]) = RowPod(data[j]) => i = j

\* C6: a transport or backend error of a metric query never reaches the loop's
\* handler; the query yields the empty mapping, the cycle runs every other query
\* and assembles the rows of the mappings that came back.
C6_TransportFailureIsolated ==
  /\ cause[1] = "query" => cause[3] # "transport"
  /\ \A q \in DOMAIN qlog :
       md[q] = IF qlog[q] = "transport" THEN EmptyMap ELSE backend[q]
  /\ pc \in {"prepare", "rows", "write", "sleep"} =>
       DOMAIN qlog = {QueryNames(variant)[i] : i \in 1..Len(QueryNames(variant))}
  /\ RowsMatchCandidates

\* the usage query failed with a transport error and the cycle wrote the rows of
\* the limit mapping
C6_Witness ==
  /\ pc = "sleep"
  /\ "memory_usage" \in DOMAIN qlog
  /\ qlog["memory_usage"] = "transport"
  /\ Len(data) = 2
  /\ \E i \in RowLines : LineCycle(i) = cycle

\* C7: a token acquisition failure never reaches the loop's handler (it blocks
\* only its own query, the cycle goes on).
C7_CredentialFailureIsolated == cause[1] = "query" => cause[3] # "denied"

StatusFallback(row, o) ==
  /\ row["Pod Status"] = (CASE o = "notfound" -> Str("NotFound")
                            [] o = "apierror" -> Str("Error")
                            [] OTHER -> Str("Unknown"))
  /\ row["Pod Reason"] = None
  /\ row["Pod Restarts"] = Num(0)
  /\ row["Ready Containers"] = Num(0)
  /\ row["Total Containers"] = Num(0)
  /\ row["Error Message"] # None

PodEventFields ==
  {"Pod Event Type", "Pod Event Reason", "Pod Event Age", "Pod Event Source",
   "Pod Event Message"}
NodeEventFields ==
  {"Node Name", "Event Reason", "Event Age", "Event Source", "Event Message"}

\* the five fields are all "N/A", or all "Unknown", or all actual values
OneClass(row, fields) ==
  \/ \A c \in fields : row[c] = NA
  \/ \A c \in fields : row[c] = UNKNOWN
  \/ \A c \in fields : row[c] # NA /\ row[c] # UNKNOWN

\* C9: the pod-level and the node-level event summary of every row use one
\* outcome class in all five fields.
C9_OneClassPerSummary ==
  \A i \in 1..Len(data) :
    OneClass(data[i], PodEventFields) /\ OneClass(data[i], NodeEventFields)

\* C10: the row of a pod that was read and has an init container terminated with
\* a nonzero exit code has the reason "Init: " + the terminated reason (or exit
\* code) of the first such init container.
C10_InitFailureReason ==
  \A i \in 1..Len(data) :
    LET p == RowPod(data[i])
    IN  (lookups[p]["status"] = "ok" /\ p \in DOMAIN ClusterPods
           /\ InitBreakIndex(ClusterPods[p].init_container_statuses) # 0) =>
        LET inits == ClusterPods[p].init_container_statuses
            first == CHOOSE k \in 1..Len(inits) :
                       /\ inits[k].state.kind = "terminated"
                       /\ inits[k].state.exit_code # 0
                       /\ \A j \in 1..(k - 1) :
                            ~(inits[j].state.kind = "terminated"
                              /\ inits[j].state.exit_code # 0)
            st == inits[first].state
        IN  data[i]["Pod Reason"] =
              <<"Init: ", IF st.reason # "" THEN Str(st.reason) ELSE Num(st.exit_code)>>

\* C11: the usage percentage of every row is the marker "N/A" when the pod's
\* limit is 0 or missing from the limit mapping, and otherwise the number pct with
\* pct * limit = 100 * usage, the usage counting as 0 when missing.
C11_UsagePercentage ==
  \A i \in 1..Len(data) :
    LET p == RowPod(data[i])
        cell == data[i]["Memory Usage (%)"]
        usage == IF p \in DOMAIN md["memory_usage"] THEN md["memory_usage"][p] ELSE 0
    IN  IF p \in DOMAIN md["memory_limit"] /\ md["memory_limit"][p] > 0
        THEN cell[1] = "num" /\ cell[2] * md["memory_limit"][p] = 100 * usage
        ELSE cell = NA

\* a written cycle holds a row with a limit of 0 and a row with a positive limit
\* and a positive usage
C11_Witness ==
  /\ pc = "sleep"
  /\ \E i \in 1..Len(data) :
       /\ RowPod(data[i]) \in DOMAIN md["memory_limit"]
       /\ md["memory_limit"][RowPod(data[i])] = 0
       /\ data[i]["Memory Usage (%)"] = NA
  /\ \E i \in 1..Len(data) :
       /\ RowPod(data[i]) \in DOMAIN md["memory_limit"]
       /\ RowPod(data[i]) \in DOMAIN md["memory_usage"]
       /\ md["memory_limit"][RowPod(data[i])] > 0
       /\ md["memory_usage"][RowPod(data[i])] > 0
       /\ data[i]["Memory Usage (%)"][1] = "num"

\* the first non-absent of last-observed, event-time, first-observed (0: all absent)
ResolvedTimestamp(e) ==
  IF e.last_timestamp # 0 THEN e.last_timestamp
  ELSE IF e.event_time # 0 THEN e.event_time
  ELSE e.first_timestamp

\* the indices of the events with a resolved timestamp, and the greatest one
LatestCandidates(events) ==
  {k \in 1..Len(events) :
     /\ ResolvedTimestamp(events[k]) # 0
     /\ \A j \in 1..Len(events) :
          ResolvedTimestamp(events[j]) <= ResolvedTimestamp(events[k])}

\* the pod-level part of C12 for one row
PodEventIsLatest(row) ==
  LET p == RowPod(row)
      events == Get(PodEvents, p, <<>>)
  IN  (lookups[p]["pod_event"] = "ok" /\ LatestCandidates(events) # {}) =>
        \E k \in LatestCandidates(events) :
          /\ row["Pod Event Type"] = events[k].type
          /\ row["Pod Event Reason"] = events[k].reason
          /\ row["Pod Event Source"] = events[k].source
          /\ row["Pod Event Message"] = events[k].message

\* the node-level part of C12 for one row
NodeEventIsLatest(row) ==
  LET p == RowPod(row)
      events == IF p \in DOMAIN ClusterPods
                THEN Get(NodeEvents, ClusterPods[p].node_name, <<>>) ELSE <<>>
  IN  (lookups[p]["node_name"] = "ok" /\ lookups[p]["node_event"] = "ok"
         /\ LatestCandidates(events) # {}) =>
        \E k \in LatestCandidates(events) :
          /\ row["Event Reason"] = events[k].reason
          /\ row["Event Source"] = events[k].source
          /\ row["Event Message"] = events[k].message

\* C12: the pod-level and the node-level event summary of every row describe an
\* event with the greatest resolved timestamp (first non-absent of last-observed,
\* event-time, first-observed) whenever the lookup succeeded and some event has a
\* resolved timestamp, so an event with only an event-time can be the one returned.
C12_LatestByResolvedTimestamp ==
  \A i \in 1..Len(data) : PodEventIsLatest(data[i]) /\ NodeEventIsLatest(data[i])

RECURSIVE TotalRestarts(_)
\* the sum of the restart counts of a sequence of container statuses
TotalRestarts(statuses) ==
  IF statuses = <<>> THEN 0
  ELSE statuses[1].restart_count + TotalRestarts(Tail(statuses))

\* the restart count C13 states for one row whose workload was read
RestartsAreTheSum(row) ==
  LET p == RowPod(row)
  IN  (lookups[p]["status"] = "ok" /\ p \in DOMAIN ClusterPods) =>
        row["Pod Restarts"] =
          Num(TotalRestarts(ClusterPods[p].init_container_statuses)
              + TotalRestarts(ClusterPods[p].container_statuses))

\* C13: for every row whose workload was read successfully, the reported restart
\* count is the sum of the restart counts of all its init containers plus the sum
\* of the restart counts of all its regular containers, whatever their states.
C13_RestartsSumAllContainers ==
  \A i \in 1..Len(data) : RestartsAreTheSum(data[i])

====
